---- MODULE Spec2Model ----
(***************************************************************************)
(* Model of the SP1060 24-channel LNHR DAC driver (SP1060_24_AWG.py).      *)
(*                                                                         *)
(* Voltages are integers counted in microvolts (the resolution of the      *)
(* driver's round(.., 6)); wire text is modelled as TLA+ strings, one      *)
(* string per CR+LF terminated line.  The driver is a single sequential    *)
(* process whose position is the list of statements it still has to run    *)
(* (todo) and its place inside write() (io); the instrument is a second    *)
(* process that transmits its reply lines one at a time.                   *)
(***************************************************************************)
EXTENDS Integers, Sequences, FiniteSets, TLC

(***************************************************************************)
(* Text: formatting and parsing as the Python built-ins do them.           *)
(***************************************************************************)
HexDigits == "0123456789ABCDEF"

DecDigits == "0123456789"

CharAt(s, i) == SubSeq(s, i, i)

\* '{:X}'.format(n)
RECURSIVE FmtHexNat(_)
FmtHexNat(n) ==
    IF n < 16 THEN CharAt(HexDigits, n + 1)
    ELSE FmtHexNat(n \div 16) \o CharAt(HexDigits, (n % 16) + 1)

FmtHex(n) == IF n < 0 THEN "-" \o FmtHexNat(0 - n) ELSE FmtHexNat(n)

\* '{:0}'.format(n) for a channel number
RECURSIVE FmtDec(_)
FmtDec(n) ==
    IF n < 10 THEN CharAt(DecDigits, n + 1)
    ELSE FmtDec(n \div 10) \o CharAt(DecDigits, (n % 10) + 1)

\* str.strip(): leading and trailing blanks removed
RECURSIVE StripLeft(_)
StripLeft(s) ==
    IF Len(s) > 0 /\ CharAt(s, 1) = " " THEN StripLeft(SubSeq(s, 2, Len(s))) ELSE s

RECURSIVE StripRight(_)
StripRight(s) ==
    IF Len(s) > 0 /\ CharAt(s, Len(s)) = " " THEN StripRight(SubSeq(s, 1, Len(s) - 1)) ELSE s

Strip(s) == StripRight(StripLeft(s))

\* value of one hexadecimal digit, -1 when the character is none
HexDigitVal(c) ==
    IF \E d \in 1..16 : CharAt(HexDigits, d) = c
    THEN (CHOOSE d \in 1..16 : CharAt(HexDigits, d) = c) - 1
    ELSE -1

IsHexText(s) == Len(s) > 0 /\ \A i \in 1..Len(s) : HexDigitVal(CharAt(s, i)) >= 0

\* int(s, 16) for a text of hexadecimal digits
RECURSIVE ParseHex(_)
ParseHex(s) ==
    IF Len(s) = 0 THEN 0
    ELSE 16 * ParseHex(SubSeq(s, 1, Len(s) - 1)) + HexDigitVal(CharAt(s, Len(s)))

\* the text returned whole, as its only piece
SplitNowhere(s, sep) == <<s>>

\* str.split(sep) for a one-character separator: the pieces between the
\* separators, in order
Split(s, sep) ==
    LET seps == {i \in 1..Len(s) : CharAt(s, i) = sep}
        n    == Cardinality(seps)
        \* position of the k-th separator; 0 before the first, Len(s) + 1 after the last
        at   == [k \in 0..(n + 1) |->
                   IF k = 0 THEN 0
                   ELSE IF k = n + 1 THEN Len(s) + 1
                   ELSE CHOOSE p \in seps : Cardinality({q \in seps : q < p}) = k - 1]
    IN  [k \in 1..(n + 1) |-> SubSeq(s, at[k - 1] + 1, at[k] - 1)]

(***************************************************************************)
(* Codec (SP1060Reader).  838860.75 = 3355443 / 4.  None is the value a    *)
(* Python function returns when its except clause swallowed the error; it  *)
(* is encoded as an integer that is no voltage in microvolts.              *)
(***************************************************************************)
None == 0 - (2 ^ 30)

\* isinstance(x, (int, float)) fails
IsNone(x) == x = None

Micro == 1000000

ScaleNum == 3355443

ScaleDen == 4

\* floor(x * ScaleNum / (ScaleDen * Micro)) for x >= 0, in pieces that fit 32 bits
ScaleUp(x) ==
    LET b  == ScaleDen * Micro
        q  == x \div b
        r  == x % b
        r1 == r \div 2000
        r0 == r % 2000
        a1 == ScaleNum \div 2000
        a0 == ScaleNum % 2000
    IN  q * ScaleNum + r1 * a1 + ((r1 * a0 + r0 * a1 + ((r0 * a0) \div 2000)) \div 2000)

\* the conversion without the 10 V offset
vval_to_dacval_unshifted(vval) ==
    IF vval >= 0 THEN ScaleUp(vval) ELSE 0 - ScaleUp(0 - vval)

\* the conversion rounding to the nearest code in place of truncating
vval_to_dacval_rounding(vval) ==
    LET x == vval + 10 * Micro
    IN  IF x >= 0
        THEN (IF ScaleUp(2 * x) % 2 = 1 THEN ScaleUp(x) + 1 ELSE ScaleUp(x))
        ELSE 0 - ScaleUp(0 - x)

\* int((float(vval) + 10) * 838860.75): truncation toward zero
vval_to_dacval(vval) ==
    LET x == vval + 10 * Micro
    IN  IF x >= 0 THEN ScaleUp(x) ELSE 0 - ScaleUp(0 - x)

\* the division without round(.., 6): the digits after the sixth dropped
ScaleDownTruncating(code) ==
    LET x  == code * 16
        q1 == x \div ScaleNum
        r1 == x % ScaleNum
        q2 == q1 * 500 + ((r1 * 500) \div ScaleNum)
        r2 == (r1 * 500) % ScaleNum
    IN  q2 * 500 + ((r2 * 500) \div ScaleNum)

\* round(code * (ScaleDen * Micro) / ScaleNum) for code >= 0, by long division
ScaleDown(code) ==
    LET x  == code * 16
        q1 == x \div ScaleNum
        r1 == x % ScaleNum
        q2 == q1 * 500 + ((r1 * 500) \div ScaleNum)
        r2 == (r1 * 500) % ScaleNum
        q3 == q2 * 500 + ((r2 * 500) \div ScaleNum)
        r3 == (r2 * 500) % ScaleNum
    IN  IF 2 * r3 > ScaleNum THEN q3 + 1 ELSE q3

\* round(int(dacval.strip(), 16) / 838860.75 - 10, 6), None when int() raises
dacval_to_vval(dacval) ==
    IF IsHexText(Strip(dacval))
    THEN ScaleDown(ParseHex(Strip(dacval))) - 10 * Micro
    ELSE None

(***************************************************************************)
(* Bounds of the model and the inputs the calls are drawn from.            *)
(***************************************************************************)
\* API calls made on the Device after its construction
MaxOps == 1

\* reply lines of an earlier command the driver reads in place of a reply,
\* over one run
MaxStaleReads == 2

\* most lines an instrument's reply to HARD? / SOFT? has ("multiple
\* statements", so two at least)
MaxIdnLines == 3

\* an I/O error is tried on each command of a call up to this one (a command
\* being three transport events: drain, write, read)
MaxFailedCommand == 3

\* the codec is tried on the voltages from -10 V to 10 V that lie CodecStride
\* microvolts apart, and on every voltage within CodecWindow microvolts of
\* -10 V, 0 V and 10 V
CodecStride == 9973

CodecWindow == 300

num_chans == 24

Channels == 1..num_chans

\* chan.volt.step set to 0.1 V
VoltStepTenfold == Micro \div 10

\* chan.volt.step = 0.01 V
VoltStep == Micro \div 100

\* SP1060Channel's default min_val / max_val, in volts
ChanMinVolts == -10

ChanMaxVolts == 10

\* set requests tried, as <<channel, target>>: on the first channel 0 V, the
\* voltage mid-scale reads back as, one a whole step above it, one a few
\* steps above it, one volt (a hundred steps) and one below -10 V; on the
\* last channel a few steps below 0 V and above 10 V
SetInputs ==
    { <<1, 0>>, <<1, 1>>, <<1, VoltStep + 1>>, <<1, 25000>>, <<1, Micro>>, <<1, 0 - (10 * Micro) - 1>>,
      <<num_chans, -25000>>, <<num_chans, 10 * Micro + 500000>> }

\* channels whose voltage is read back
GetInputs == {1, num_chans}

SetAllTargets == {25000, 10 * Micro + 500000}

\* (min_val, max_val) given to SP1060(...): the default and a narrower pair
DeviceBounds == {<<-10 * Micro, 10 * Micro>>, <<0 - VoltStep, VoltStep>>}

\* voltages given to the codec
CodecInputs ==
    {(k * CodecStride) - (10 * Micro) : k \in 0..((20 * Micro) \div CodecStride)}
        \cup {k - (10 * Micro) : k \in 0..CodecWindow}
        \cup ((0 - CodecWindow)..CodecWindow)
        \cup {(10 * Micro) - k : k \in 0..CodecWindow}

\* wavemem arguments of set_newWaveform, '4' being no bank
BankArgs == {"0", "1", "2", "3", "4"}

\* channel arguments of set_newWaveform, '25' being no channel
WaveChannelArgs == {"12", "25"}

\* set_newWaveform calls tried, as <<channel, wavemem>>: every bank argument
\* with a channel in range, and the channel out of range with the first bank
WaveformInputs ==
    {in \in WaveChannelArgs \X BankArgs : in[1] = "12" \/ in[2] = "0"}

\* status the instrument's channels report at power-up
StatusConfigs ==
    { [c \in Channels |-> "ON"],
      [c \in Channels |-> "OFF"],
      [c \in Channels |-> IF c = num_chans THEN "OFF" ELSE "ON"] }

\* DAC registers the instrument holds when the driver connects: mid-scale,
\* which reads back as 0 V
PowerUpRegisters == { [c \in Channels |-> 2 ^ 23] }

VARIABLES
    pc,       \* "new" before SP1060(...), "run" inside a call, "idle" between calls,
              \* "failed" once a call raised an I/O error
    todo,     \* statements the running call still has to execute
    io,       \* place inside write(): "none", "drained" (before ask), "written"
    cache,    \* chan.volt's cached last value, per channel
    ret,      \* what the last call returned or raised
    call,     \* the running (or last) call and its arguments
    dev,      \* min_val / max_val given at construction
    ncalls,   \* calls made after construction
    trace,    \* transport events of the running (or last) call
    dac,      \* instrument: DAC register per channel
    status,   \* instrument: ON / OFF per channel
    idnLines, \* instrument: number of lines of an identity reply
    outq,     \* instrument: reply lines not yet transmitted
    inbuf,    \* transport: lines received and not yet read
    nstale    \* lines read so far that answered an earlier command

vars == <<pc, todo, io, cache, ret, call, dev, ncalls, trace, dac, status, idnLines, outq, inbuf, nstale>>

(***************************************************************************)
(* Statements of the driver.                                               *)
(***************************************************************************)
\* self.write(cmd); `then` says what the caller does with the reply
Write(cmd, then, ch, v) == [k |-> "write", cmd |-> cmd, then |-> then, ch |-> ch, v |-> v]

\* self.visa_handle.read()
Read(then) == [k |-> "read", cmd |-> "", then |-> then, ch |-> 0, v |-> 0]

\* self.empty_buffer() called outside write()
Clear == [k |-> "clear", cmd |-> "", then |-> "none", ch |-> 0, v |-> 0]

\* chan.volt.set(v) still to be called (set_all's loop)
SetCall(ch, v) == [k |-> "set", cmd |-> "", then |-> "none", ch |-> ch, v |-> v]

NoCall == [op |-> "none", ch |-> 0, v |-> 0, c |-> 0, chan |-> "", bank |-> ""]

(***************************************************************************)
(* Channel parameter 'volt'.                                               *)
(***************************************************************************)
\* the parameter built without vals
VoltValidNoCheck(v) == TRUE

\* vals.Numbers(min(min_val, max_val), max(min_val, max_val)) with the defaults
VoltValid(v) == ChanMinVolts * Micro <= v /\ v <= ChanMaxVolts * Micro

\* the set command addressing the first channel whatever chan is
SetCmdFirstChannel(chan, code) == "1 " \o FmtHex(code)

\* self.write('{:0} {:X}'.format(chan, code))
SetCmd(chan, code) == FmtDec(chan) \o " " \o FmtHex(code)

\* self.write('{:0} V?'.format(chan))
ReadCmd(chan) == FmtDec(chan) \o " V?"

\* the count taken one too high: floor(|t - c| / step) + 1
StepCountOneMore(c, t) ==
    LET d == IF t > c THEN t - c ELSE c - t
    IN  (d \div VoltStep) + 1

\* number of values of the sweep from c to t: ceil(|t - c| / step)
StepCount(c, t) ==
    LET d == IF t > c THEN t - c ELSE c - t
    IN  (d + VoltStep - 1) \div VoltStep

\* values chan.volt.set(t) commands when the cached value is c: the sweep
\* without its start, then t; a cache holding no number makes it jump to t
RampValues(c, t) ==
    IF IsNone(c) THEN <<t>>
    ELSE LET n == StepCount(c, t)
             s == IF t > c THEN VoltStep ELSE 0 - VoltStep
         IN  [i \in 1..(IF n > 0 THEN n - 1 ELSE 0) |-> c + i * s] \o <<t>>

\* one statement per value: set_parser, then set_cmd, then the cache update
RampStmts(ch, c, t) ==
    LET vs == RampValues(c, t)
    IN  [i \in 1..Len(vs) |-> Write(SetCmd(ch, vval_to_dacval(vs[i])), "cache", ch, vs[i])]

\* chan.volt.get()
GetStmt(ch) == Write(ReadCmd(ch), "volt", ch, 0)

(***************************************************************************)
(* Device.                                                                 *)
(***************************************************************************)
\* get_serial and get_firmware without their closing empty_buffer()
IdnStmtsNoClear ==
    << Write("HARD?", "none", 0, 0), Read("serial"),
       Write("SOFT?", "none", 0, 0), Read("firmware") >>

\* get_serial then get_firmware
IdnStmts ==
    << Write("HARD?", "none", 0, 0), Read("serial"), Clear,
       Write("SOFT?", "none", 0, 0), Read("firmware"), Clear >>

\* self.channels[:].volt.get()
GetAllStmts == [i \in Channels |-> GetStmt(i)]

\* ALL ON only when every token is OFF
ConstructRestAllOff(tokens) ==
    (IF \A i \in 1..Len(tokens) : tokens[i] = "OFF"
     THEN <<Write("ALL ON", "none", 0, 0)>> ELSE <<>>)
    \o IdnStmts \o GetAllStmts

\* the statements after 'if "OFF" in self.query_all()'
ConstructRest(tokens) ==
    (IF \E i \in 1..Len(tokens) : tokens[i] = "OFF"
     THEN <<Write("ALL ON", "none", 0, 0)>> ELSE <<>>)
    \o IdnStmts \o GetAllStmts

\* memsave of set_newWaveform
MemSave(wavemem) ==
    IF wavemem = "0" THEN "A"
    ELSE IF wavemem = "1" THEN "B"
    ELSE IF wavemem = "2" THEN "C"
    ELSE IF wavemem = "3" THEN "D"
    ELSE ""

WaveformArg == "0"

FrequencyArg == "100.0"

AmplitudeArg == "5.0"

\* set_newWaveform applying before it binds the channel
WaveformCmdsApplyEarly(channel, waveform, frequency, amplitude, wavemem) ==
    LET memsave == MemSave(wavemem)
    IN  << "C WAV-B CLR",
           "C SWG MODE 0",
           "C SWG WF " \o waveform,
           "C SWG DF " \o frequency,
           "C SWG AMP " \o amplitude,
           "C SWG WMEM " \o wavemem,
           "C SWG WFUN 0",
           "C SWG LIN " \o channel,
           "C SWG APPLY",
           "C AWG-" \o memsave \o " CH " \o channel,
           "C WAV-" \o memsave \o " SAVE",
           "C WAV-" \o memsave \o " WRITE",
           "C AWG-" \o memsave \o " START" >>

\* the commands of set_newWaveform, in program order
WaveformCmds(channel, waveform, frequency, amplitude, wavemem) ==
    LET memsave == MemSave(wavemem)
    IN  << "C WAV-B CLR",
           "C SWG MODE 0",
           "C SWG WF " \o waveform,
           "C SWG DF " \o frequency,
           "C SWG AMP " \o amplitude,
           "C SWG WMEM " \o wavemem,
           "C SWG WFUN 0",
           "C SWG LIN " \o channel,
           "C AWG-" \o memsave \o " CH " \o channel,
           "C SWG APPLY",
           "C WAV-" \o memsave \o " SAVE",
           "C WAV-" \o memsave \o " WRITE",
           "C AWG-" \o memsave \o " START" >>

WaveformStmts(channel, waveform, frequency, amplitude, wavemem) ==
    LET cmds == WaveformCmds(channel, waveform, frequency, amplitude, wavemem)
    IN  [i \in 1..Len(cmds) |-> Write(cmds[i], "none", 0, 0)]

(***************************************************************************)
(* The instrument, as the wire protocol describes it.                      *)
(***************************************************************************)
Line(text) == [text |-> text, fresh |-> TRUE]

\* a reply line overtaken by a later command
Stale(lines) == [i \in 1..Len(lines) |-> [lines[i] EXCEPT !.fresh = FALSE]]

RECURSIVE ParseDec(_)
ParseDec(s) ==
    IF Len(s) = 0 THEN 0
    ELSE 10 * ParseDec(SubSeq(s, 1, Len(s) - 1)) + HexDigitVal(CharAt(s, Len(s)))

IsDecText(s) ==
    Len(s) > 0 /\ \A i \in 1..Len(s) : HexDigitVal(CharAt(s, i)) \in 0..9

RECURSIVE JoinStatus(_, _)
JoinStatus(st, n) ==
    IF n = 1 THEN st[1] ELSE JoinStatus(st, n - 1) \o ";" \o st[n]

\* the lines of the reply to HARD? or SOFT?
IdnReply(cmd, n) == [i \in 1..n |-> Line(cmd \o " line " \o FmtDec(i))]

StatusLine == "0"

ErrorLine == "1"

\* what the instrument does with one command line: its registers and status
\* afterwards, and the reply lines it will transmit
InstrumentOn(cmd, regs, st, n) ==
    LET tok == Split(cmd, " ")
        same(lines) == [dac |-> regs, status |-> st, lines |-> lines]
    IN  IF cmd = "All S?" THEN same(<<Line(JoinStatus(st, num_chans))>>)
        ELSE IF cmd = "ALL ON"
        THEN [dac |-> regs, status |-> [c \in Channels |-> "ON"], lines |-> <<Line(StatusLine)>>]
        ELSE IF cmd = "ALL OFF"
        THEN [dac |-> regs, status |-> [c \in Channels |-> "OFF"], lines |-> <<Line(StatusLine)>>]
        ELSE IF cmd \in {"HARD?", "SOFT?"} THEN same(IdnReply(cmd, n))
        ELSE IF tok[1] = "C" THEN same(<<Line(StatusLine)>>)
        ELSE IF Len(tok) = 2 /\ IsDecText(tok[1]) /\ ParseDec(tok[1]) \in Channels
        THEN IF tok[2] = "V?"
             THEN same(<<Line(FmtHex(regs[ParseDec(tok[1])]))>>)
             ELSE IF IsHexText(tok[2])
             THEN [dac |-> [regs EXCEPT ![ParseDec(tok[1])] = ParseHex(tok[2])],
                   status |-> st, lines |-> <<Line(StatusLine)>>]
             ELSE same(<<Line(ErrorLine)>>)
        ELSE same(<<Line(ErrorLine)>>)

(***************************************************************************)
(* Running the statements.                                                 *)
(***************************************************************************)
Ret(err, val) == [err |-> err, val |-> val]

\* a transport event; v is the voltage a set command stands for, 0 otherwise
Event(e, text, fresh, v) == [e |-> e, text |-> text, fresh |-> fresh, v |-> v]

\* The statement list with a pending chan.volt.set(v) at its head carried out
\* up to its first command: the validation, which raises, or the sweep from
\* the cached value.
Settle(td, cch) ==
    IF td # <<>> /\ Head(td).k = "set"
    THEN IF VoltValid(Head(td).v)
         THEN [todo |-> RampStmts(Head(td).ch, cch[Head(td).ch], Head(td).v) \o Tail(td),
               err |-> "none"]
         ELSE [todo |-> <<>>, err |-> "range"]
    ELSE [todo |-> td, err |-> "none"]

\* a call begins: its statements are stmts
Begin(c, stmts) ==
    LET s == Settle(stmts, cache)
    IN  /\ pc = "idle"
        /\ ncalls < MaxOps
        /\ ncalls' = ncalls + 1
        /\ call' = c
        /\ trace' = <<>>
        /\ io' = "none"
        /\ todo' = s.todo
        /\ ret' = Ret(s.err, <<>>)
        /\ pc' = IF s.todo = <<>> THEN "idle" ELSE "run"
        /\ UNCHANGED <<cache, dev, dac, status, idnLines, outq, inbuf, nstale>>

\* the statement at the head of todo is done; cch is the cache afterwards
Advance(rest, cch, r) ==
    LET s == Settle(rest, cch)
    IN  /\ todo' = s.todo
        /\ cache' = cch
        /\ ret' = IF s.err = "none" THEN r ELSE Ret(s.err, r.val)
        /\ pc' = IF s.todo = <<>> THEN "idle" ELSE "run"

\* SP1060(name, address, min_val, max_val): up to the first command
Construct(min_val, max_val) ==
    /\ pc = "new"
    /\ pc' = "run"
    /\ dev' = [min_val |-> min_val, max_val |-> max_val]
    /\ call' = [NoCall EXCEPT !.op = "construct"]
    /\ todo' = <<Write("All S?", "init", 0, 0)>>
    /\ UNCHANGED <<io, cache, ret, ncalls, trace, dac, status, idnLines, outq, inbuf, nstale>>

\* chan.volt.set(v), also written chan.volt(v)
CallSet(ch, v) ==
    Begin([NoCall EXCEPT !.op = "set", !.ch = ch, !.v = v, !.c = cache[ch]], <<SetCall(ch, v)>>)

\* chan.volt.get()
CallGet(ch) ==
    Begin([NoCall EXCEPT !.op = "get", !.ch = ch, !.c = cache[ch]], <<GetStmt(ch)>>)

\* set_all going through the channels from the last to the first
CallSetAllDescending(v) ==
    Begin([NoCall EXCEPT !.op = "set_all", !.v = v],
          [i \in Channels |-> SetCall(num_chans + 1 - i, v)])

\* set_all(volt)
CallSetAll(v) ==
    Begin([NoCall EXCEPT !.op = "set_all", !.v = v], [i \in Channels |-> SetCall(i, v)])

\* query_all()
CallQueryAll ==
    Begin([NoCall EXCEPT !.op = "query_all"], <<Write("All S?", "tokens", 0, 0)>>)

\* all_on()
CallAllOn ==
    Begin([NoCall EXCEPT !.op = "all_on"], <<Write("ALL ON", "none", 0, 0)>>)

\* all_off()
CallAllOff ==
    Begin([NoCall EXCEPT !.op = "all_off"], <<Write("ALL OFF", "none", 0, 0)>>)

\* get_idn()
CallGetIdn ==
    Begin([NoCall EXCEPT !.op = "get_idn"], IdnStmts)

\* set_newWaveform(channel, waveform, frequency, amplitude, wavemem)
CallSetNewWaveform(channel, wavemem) ==
    Begin([NoCall EXCEPT !.op = "set_newWaveform", !.chan = channel, !.bank = wavemem],
          WaveformStmts(channel, WaveformArg, FrequencyArg, AmplitudeArg, wavemem))

\* self.visa_handle.clear()
empty_buffer ==
    /\ inbuf' = <<>>
    /\ trace' = Append(trace, Event("drain", "", TRUE, 0))

\* write() calling ask() without emptying the buffer first
WriteNoDrain ==
    /\ pc = "run"
    /\ Head(todo).k = "write"
    /\ io = "none"
    /\ io' = "drained"
    /\ UNCHANGED <<pc, todo, cache, ret, call, dev, ncalls, trace, dac, status, idnLines,
                   outq, inbuf, nstale>>

\* write(): self.empty_buffer()
WriteDrain ==
    /\ pc = "run"
    /\ Head(todo).k = "write"
    /\ io = "none"
    /\ empty_buffer
    /\ io' = "drained"
    /\ UNCHANGED <<pc, todo, cache, ret, call, dev, ncalls, dac, status, idnLines, outq, nstale>>

\* write(): self.ask(cmd), the command goes out and the instrument takes it
AskWrite ==
    /\ pc = "run"
    /\ Head(todo).k = "write"
    /\ io = "drained"
    /\ LET got == InstrumentOn(Head(todo).cmd, dac, status, idnLines)
       IN  /\ dac' = got.dac
           /\ status' = got.status
           /\ outq' = Stale(outq) \o got.lines
    /\ inbuf' = Stale(inbuf)
    /\ trace' = Append(trace, Event("write", Head(todo).cmd, TRUE, Head(todo).v))
    /\ io' = "written"
    /\ UNCHANGED <<pc, todo, cache, ret, call, dev, ncalls, idnLines, nstale>>

\* what the caller of a read does with the line it got
AfterRead(stmt, line) ==
    LET text == line.text
    IN  CASE stmt.then = "init" ->
               Advance(ConstructRest(Split(text, ";")), cache, ret)
          [] stmt.then = "tokens" ->
               Advance(Tail(todo), cache, Ret("none", Split(text, ";")))
          [] stmt.then = "cache" ->
               Advance(Tail(todo), [cache EXCEPT ![stmt.ch] = stmt.v], ret)
          [] stmt.then = "volt" ->
               Advance(Tail(todo), [cache EXCEPT ![stmt.ch] = dacval_to_vval(text)],
                       Ret("none", Append(ret.val, dacval_to_vval(text))))
          [] stmt.then = "serial" ->
               Advance(Tail(todo), cache,
                       Ret("none", Append(ret.val, SubSeq(Strip(text), 4, Len(Strip(text))))))
          [] stmt.then = "firmware" ->
               Advance(Tail(todo), cache,
                       Ret("none", Append(ret.val,
                           SubSeq(Strip(text),
                                  IF Len(Strip(text)) > 5 THEN Len(Strip(text)) - 4 ELSE 1,
                                  Len(Strip(text))))))
          [] OTHER ->
               Advance(Tail(todo), cache, ret)

\* one blocking read of a reply line: the read of ask(), or visa_handle.read()
ReadLine ==
    /\ inbuf # <<>>
    /\ Head(inbuf).fresh \/ nstale < MaxStaleReads
    /\ nstale' = IF Head(inbuf).fresh THEN nstale ELSE nstale + 1
    /\ inbuf' = Tail(inbuf)
    /\ trace' = Append(trace, Event("read", Head(inbuf).text, Head(inbuf).fresh, 0))
    /\ io' = "none"
    /\ AfterRead(Head(todo), Head(inbuf))
    /\ UNCHANGED <<call, dev, ncalls, dac, status, idnLines, outq>>

\* write(): the reply read of self.ask(cmd)
AskRead ==
    /\ pc = "run"
    /\ Head(todo).k = "write"
    /\ io = "written"
    /\ ReadLine

\* get_serial / get_firmware: reply = self.visa_handle.read()
VisaRead ==
    /\ pc = "run"
    /\ Head(todo).k = "read"
    /\ ReadLine

\* get_serial / get_firmware: self.empty_buffer() after the sleep
ClearStmt ==
    /\ pc = "run"
    /\ Head(todo).k = "clear"
    /\ empty_buffer
    /\ io' = "none"
    /\ Advance(Tail(todo), cache, ret)
    /\ UNCHANGED <<call, dev, ncalls, dac, status, idnLines, outq, nstale>>

\* a transport error swallowed: the statement is given up and the call goes on
IoFailSwallowed ==
    /\ pc = "run"
    /\ Len(trace) < 3 * MaxFailedCommand
    /\ \/ Head(todo).k = "write" /\ io \in {"drained", "written"}
       \/ Head(todo).k = "read"
    /\ io' = "none"
    /\ Advance(Tail(todo), cache, Ret("io", ret.val))
    /\ UNCHANGED <<call, dev, ncalls, trace, dac, status, idnLines, outq, inbuf, nstale>>

\* self.ask(cmd) or self.visa_handle.read() raises (timeout, disconnect, write
\* failure): no statement of the driver catches it, so it leaves the call,
\* and the run is followed no further than the caller getting the exception
IoFail ==
    /\ pc = "run"
    /\ Len(trace) < 3 * MaxFailedCommand
    /\ \/ Head(todo).k = "write" /\ io \in {"drained", "written"}
       \/ Head(todo).k = "read"
    /\ pc' = "failed"
    /\ todo' = <<>>
    /\ io' = "none"
    /\ ret' = Ret("io", ret.val)
    /\ UNCHANGED <<cache, call, dev, ncalls, trace, dac, status, idnLines, outq, inbuf, nstale>>

\* the instrument transmits the next line of its replies
InstrEmit ==
    /\ outq # <<>>
    /\ inbuf' = Append(inbuf, Head(outq))
    /\ outq' = Tail(outq)
    /\ UNCHANGED <<pc, todo, io, cache, ret, call, dev, ncalls, trace, dac, status, idnLines, nstale>>

Init ==
    /\ pc = "new"
    /\ todo = <<>>
    /\ io = "none"
    /\ cache = [c \in Channels |-> None]
    /\ ret = Ret("none", <<>>)
    /\ call = NoCall
    /\ dev = [min_val |-> ChanMinVolts * Micro, max_val |-> ChanMaxVolts * Micro]
    /\ ncalls = 0
    /\ trace = <<>>
    /\ dac \in PowerUpRegisters
    /\ status \in StatusConfigs
    /\ idnLines \in 2..MaxIdnLines
    /\ outq = <<>>
    /\ inbuf = <<>>
    /\ nstale = 0

Next ==
    \/ \E b \in DeviceBounds : Construct(b[1], b[2])
    \/ \E in \in SetInputs : CallSet(in[1], in[2])
    \/ \E ch \in GetInputs : CallGet(ch)
    \/ \E v \in SetAllTargets : CallSetAll(v)
    \/ CallQueryAll
    \/ CallAllOn
    \/ CallAllOff
    \/ CallGetIdn
    \/ \E in \in WaveformInputs : CallSetNewWaveform(in[1], in[2])
    \/ WriteDrain
    \/ AskWrite
    \/ AskRead
    \/ VisaRead
    \/ ClearStmt
    \/ IoFail
    \/ InstrEmit

Spec == Init /\ [][Next]_vars

(***************************************************************************)
(* The codec on its own: a voltage is converted to its code                *)
(* (_vval_to_dacval), the code is formatted as the set command formats it  *)
(* ('{:X}'), and the text is converted back (_dacval_to_vval).  ret.val    *)
(* collects the code, the text and the voltage read back.                  *)
(***************************************************************************)
CodecInit ==
    /\ pc = "idle"
    /\ todo = <<>>
    /\ io = "none"
    /\ cache = [c \in Channels |-> None]
    /\ ret = Ret("none", <<>>)
    /\ \E v \in CodecInputs : call = [NoCall EXCEPT !.op = "codec", !.v = v]
    /\ dev = [min_val |-> ChanMinVolts * Micro, max_val |-> ChanMaxVolts * Micro]
    /\ ncalls = 0
    /\ trace = <<>>
    /\ dac \in PowerUpRegisters
    /\ status = [c \in Channels |-> "ON"]
    /\ idnLines = 2
    /\ outq = <<>>
    /\ inbuf = <<>>
    /\ nstale = 0

CodecFrame ==
    UNCHANGED <<pc, todo, io, cache, call, dev, ncalls, trace, dac, status, idnLines,
                outq, inbuf, nstale>>

\* dacval = self._vval_to_dacval(vval)
CodecEncode ==
    /\ Len(ret.val) = 0
    /\ ret' = Ret("none", <<vval_to_dacval(call.v)>>)
    /\ CodecFrame

\* '{:X}'.format(code)
CodecFormat ==
    /\ Len(ret.val) = 1
    /\ ret' = Ret("none", Append(ret.val, FmtHex(ret.val[1])))
    /\ CodecFrame

\* vval = self._dacval_to_vval(text)
CodecDecode ==
    /\ Len(ret.val) = 2
    /\ ret' = Ret("none", Append(ret.val, dacval_to_vval(ret.val[2])))
    /\ CodecFrame

CodecNext ==
    \/ CodecEncode
    \/ CodecFormat
    \/ CodecDecode

CodecSpec == CodecInit /\ [][CodecNext]_vars

(***************************************************************************)
(* Reading the trace.  The trace only grows by one event at its end (and   *)
(* restarts empty with each call), so a property of its last events that   *)
(* holds in every reachable state holds at every place of every trace.     *)
(***************************************************************************)
Writes == SelectSeq(trace, LAMBDA ev : ev.e = "write")

WriteTexts == [i \in 1..Len(Writes) |-> Writes[i].text]

\* the k-th event from the end, k = 0 being the last
Back(k) == trace[Len(trace) - k]

\* the kind of the k-th event from the end, "start" before the first event
KindBack(k) == IF Len(trace) > k THEN Back(k).e ELSE "start"

IdnCmds == {"HARD?", "SOFT?"}

Distance(a, b) == IF a > b THEN a - b ELSE b - a

\* the call in progress has returned
Returned == pc = "idle" /\ call.op # "none"

(***************************************************************************)
(* C1: a set to a target more than 0.01 V from the cached value commands   *)
(* that channel only, in steps of at most 0.01 V that all move from the    *)
(* cached value toward the target, each command carrying the code of its   *)
(* value, and ends with the code of the target; a change of d volts takes  *)
(* at least d / 0.01 commands, so 0 V to 1 V takes at least 100.           *)
(***************************************************************************)
C1_RampCase ==
    /\ call.op = "set"
    /\ call.c # None
    /\ call.v >= -10000000 /\ call.v <= 10000000
    /\ Distance(call.v, call.c) > 10000

C1_Ramp ==
    C1_RampCase =>
        /\ KindBack(0) = "write" =>
               \* the command before this one, three events back (write, read, drain)
               LET prev == IF Len(trace) > 3 THEN Back(3).v ELSE call.c
               IN  /\ Len(trace) > 3 => KindBack(3) = "write"
                   /\ Back(0).text = FmtDec(call.ch) \o " " \o FmtHex(vval_to_dacval(Back(0).v))
                   /\ Distance(Back(0).v, prev) <= 10000
                   /\ IF call.v > call.c
                      THEN prev < Back(0).v /\ Back(0).v <= call.v
                      ELSE prev > Back(0).v /\ Back(0).v >= call.v
        /\ Returned =>
               LET W == Writes
                   n == Len(W)
               IN  /\ n >= 2
                   /\ W[n].v = call.v
                   /\ W[n].text = FmtDec(call.ch) \o " " \o FmtHex(vval_to_dacval(call.v))
                   /\ n * 10000 >= Distance(call.v, call.c)
                   /\ (call.c = 0 /\ call.v = 1000000) => n >= 100

\* a channel that read back as 0.000001 V (mid-scale) was set to 1 V
C1_Witness ==
    /\ C1_RampCase
    /\ Returned
    /\ Distance(call.c, 0) <= 1
    /\ call.v = 1000000
    /\ Len(Writes) >= 100

(***************************************************************************)
(* C2: a set request outside [-10 V, 10 V] (the channel's min_val and      *)
(* max_val) raises a range error with nothing written to or read from the  *)
(* transport and the channel's cached value unchanged.                     *)
(***************************************************************************)
C2_RejectCase ==
    /\ call.op = "set"
    /\ (call.v < -10000000 \/ call.v > 10000000)

C2_RangeError ==
    C2_RejectCase =>
        /\ pc = "idle"
        /\ ret.err = "range"
        /\ trace = <<>>
        /\ cache[call.ch] = call.c

C2_Witness ==
    /\ C2_RejectCase
    /\ pc = "idle"
    /\ ret.err = "range"
    /\ call.v > 10000000

(***************************************************************************)
(* C3: a set request outside the min_val / max_val the Device was built    *)
(* with is rejected, whatever the channel.                                 *)
(***************************************************************************)
C3_DeviceBoundsEnforced ==
    (call.op = "set" /\ (call.v < dev.min_val \/ call.v > dev.max_val)) =>
        /\ ret.err = "range"
        /\ trace = <<>>

(***************************************************************************)
(* C4: set_newWaveform writes exactly the twelve commands clear, mode,     *)
(* shape, frequency, amplitude, bank, overwrite, bind, apply, save, write, *)
(* start, in this order.                                                   *)
(***************************************************************************)
BankLetters == {"A", "B", "C", "D"}

C4_TwelveSteps ==
    (call.op = "set_newWaveform" /\ Returned) =>
        \E l \in BankLetters \cup {""} :
            WriteTexts =
                << "C WAV-" \o l \o " CLR",
                   "C SWG MODE 0",
                   "C SWG WF " \o WaveformArg,
                   "C SWG DF " \o FrequencyArg,
                   "C SWG AMP " \o AmplitudeArg,
                   "C SWG WMEM " \o call.bank,
                   "C SWG WFUN 0",
                   "C AWG-" \o l \o " CH " \o call.chan,
                   "C SWG APPLY",
                   "C WAV-" \o l \o " SAVE",
                   "C WAV-" \o l \o " WRITE",
                   "C AWG-" \o l \o " START" >>

(***************************************************************************)
(* C4 as amended: set_newWaveform writes exactly thirteen commands: the    *)
(* clear of a wave-memory bank, mode, shape, frequency, amplitude, bank,   *)
(* overwrite, SWG LIN <channel>, the bind of the AWG bank to the channel,  *)
(* apply, save, write, start, in this order, each a separate command after *)
(* which one reply line is read before the next command is written.        *)
(***************************************************************************)
C4_Order(l1, l2) ==
    << "C WAV-" \o l1 \o " CLR",
       "C SWG MODE 0",
       "C SWG WF " \o WaveformArg,
       "C SWG DF " \o FrequencyArg,
       "C SWG AMP " \o AmplitudeArg,
       "C SWG WMEM " \o call.bank,
       "C SWG WFUN 0",
       "C SWG LIN " \o call.chan,
       "C AWG-" \o l2 \o " CH " \o call.chan,
       "C SWG APPLY",
       "C WAV-" \o l2 \o " SAVE",
       "C WAV-" \o l2 \o " WRITE",
       "C AWG-" \o l2 \o " START" >>

C4_ThirteenSteps ==
    call.op = "set_newWaveform" =>
        \E l1 \in BankLetters, l2 \in BankLetters \cup {""} :
            /\ Len(Writes) <= 13
            /\ WriteTexts = SubSeq(C4_Order(l1, l2), 1, Len(Writes))
            /\ Returned => Len(Writes) = 13
            /\ \A i \in 1..Len(trace) :
                   trace[i].e = <<"drain", "write", "read">>[((i - 1) % 3) + 1]

C4_Witness ==
    /\ call.op = "set_newWaveform"
    /\ Returned
    /\ Len(Writes) = 13
    /\ Len(trace) = 39

(***************************************************************************)
(* C5: with bank selector 0..3 and its letter L, no command of             *)
(* set_newWaveform names a bank letter other than L.                       *)
(***************************************************************************)
LetterOf(bank) ==
    CASE bank = "0" -> "A" [] bank = "1" -> "B" [] bank = "2" -> "C" [] bank = "3" -> "D"

\* the commands that name bank l
BankCmds(l, chan) ==
    { "C WAV-" \o l \o " CLR",
      "C AWG-" \o l \o " CH " \o chan,
      "C WAV-" \o l \o " SAVE",
      "C WAV-" \o l \o " WRITE",
      "C AWG-" \o l \o " START" }

C5_OneBankLetter ==
    (call.op = "set_newWaveform" /\ call.bank \in {"0", "1", "2", "3"}) =>
        \A i \in 1..Len(Writes) :
            \A l \in BankLetters \ {LetterOf(call.bank)} :
                Writes[i].text \notin BankCmds(l, call.chan)

(***************************************************************************)
(* C6: set_newWaveform with a bank selector outside 0..3 is rejected with  *)
(* no command written.                                                     *)
(***************************************************************************)
C6_BadBankRejected ==
    (call.op = "set_newWaveform" /\ call.bank \notin {"0", "1", "2", "3"}) =>
        /\ trace = <<>>
        /\ ret.err # "none"

(***************************************************************************)
(* C7: construction writes the status query first; ALL ON is written       *)
(* exactly once when a token of its reply is OFF and never otherwise, and  *)
(* then as the second command (the fifth transport event, after drain,     *)
(* write, read, drain), before the identity and voltage queries.           *)
(***************************************************************************)
\* the tokens of the reply construction read to its status query
C7_Tokens == Split(trace[3].text, ";")

C7_AnyOff == \E i \in 1..Len(C7_Tokens) : C7_Tokens[i] = "OFF"

C7_AllOnCount == Cardinality({i \in 1..Len(Writes) : Writes[i].text = "ALL ON"})

C7_AllOnAtConstruction ==
    (call.op = "construct" /\ Len(trace) >= 2) =>
        /\ trace[2].text = "All S?"
        /\ (Len(trace) > 3 /\ Back(0).e = "write" /\ Back(0).text = "ALL ON") => Len(trace) = 5
        /\ Len(trace) = 5 => (C7_AnyOff <=> Back(0).text = "ALL ON")
        /\ Returned =>
               /\ C7_AllOnCount = (IF C7_AnyOff THEN 1 ELSE 0)
               /\ \E i \in 1..Len(Writes) : Writes[i].text = "HARD?"
               /\ \E i \in 1..Len(Writes) : Writes[i].text = ReadCmd(num_chans)

\* built with only the last channel OFF: ALL ON went out once
C7_Witness ==
    /\ call.op = "construct"
    /\ Returned
    /\ C7_AnyOff
    /\ C7_Tokens[1] = "ON"
    /\ C7_AllOnCount = 1

(***************************************************************************)
(* C8: every command written is immediately preceded by a drain of the     *)
(* input buffer.                                                           *)
(***************************************************************************)
C8_DrainBeforeWrite ==
    KindBack(0) = "write" => KindBack(1) = "drain"

\* a ramp's later command, written right after its drain
C8_Witness ==
    /\ call.op = "set"
    /\ Len(trace) > 3
    /\ KindBack(0) = "write"
    /\ KindBack(1) = "drain"

(***************************************************************************)
(* C9: the transport events strictly repeat drain, write, read.            *)
(***************************************************************************)
C9_StrictCycle ==
    \/ Len(trace) = 0
    \/ Back(0).e = <<"drain", "write", "read">>[((Len(trace) - 1) % 3) + 1]

(***************************************************************************)
(* C9 as amended: every interaction is a drain, one command write and one  *)
(* line read, except the identity queries HARD? and SOFT?, which read a    *)
(* second line and drain once more after it; no command is written without *)
(* a line being read after it.                                             *)
(***************************************************************************)
\* the last event is the second read of an identity query
IdnSecondRead(k) ==
    /\ KindBack(k) = "read"
    /\ KindBack(k + 1) = "read"
    /\ KindBack(k + 2) = "write"
    /\ Back(k + 2).text \in IdnCmds

\* the event k back closes an interaction
CycleEnd(k) ==
    \/ KindBack(k) = "start"
    \/ /\ KindBack(k) = "read"
       /\ KindBack(k + 1) = "write"
       /\ Back(k + 1).text \notin IdnCmds
    \/ /\ KindBack(k) = "drain"
       /\ IdnSecondRead(k + 1)

C9_Cycles ==
    /\ KindBack(0) = "drain" => CycleEnd(1) \/ IdnSecondRead(1)
    /\ KindBack(0) = "write" => KindBack(1) = "drain" /\ CycleEnd(2)
    /\ KindBack(0) = "read" =>
           \/ KindBack(1) = "write"
           \/ IdnSecondRead(0)
    /\ (pc = "idle" /\ Len(trace) > 0) => CycleEnd(0)

\* an identity query ran to its second drain
C9_Witness ==
    /\ KindBack(0) = "drain"
    /\ IdnSecondRead(1)
    /\ Back(3).text = "SOFT?"

(***************************************************************************)
(* C10: no line is read that the instrument sent in answer to an earlier   *)
(* command than the one the driver last wrote.                             *)
(***************************************************************************)
C10_NoStaleLine ==
    KindBack(0) = "read" => Back(0).fresh

(***************************************************************************)
(* C11: for every voltage v of the microvolt grid in [-10 V, 10 V], the    *)
(* voltage decoded from the hexadecimal text of v's code is a voltage (the *)
(* text parses) within one microvolt of v.                                 *)
(***************************************************************************)
C11_RoundTrip ==
    (call.op = "codec" /\ Len(ret.val) = 3) =>
        /\ ret.val[3] # None
        /\ Distance(ret.val[3], call.v) <= 1

\* 0 V, whose code 7FFFFF reads back one microvolt lower
C11_Witness ==
    /\ call.op = "codec"
    /\ Len(ret.val) = 3
    /\ call.v = 0
    /\ ret.val[2] = "7FFFFF"
    /\ ret.val[3] = -1

(***************************************************************************)
(* C12: the code of -10 V is 0, the code of 10 V is 16777215 = 2^24 - 1,   *)
(* and the code of every voltage v in [-10 V, 10 V] is (v + 10) * 838860.75 *)
(* with its fraction dropped.                                              *)
(***************************************************************************)
\* floor(x * 3355443 / 10^6) for x >= 0, multiplied out in base 1000
C12_Millionths(x) ==
    LET xh  == x \div 1000
        xl  == x % 1000
        kh  == ScaleNum \div 1000
        kl  == ScaleNum % 1000
        mid == xh * kl + xl * kh
        low == (mid % 1000) * 1000 + xl * kl
    IN  xh * kh + (mid \div 1000) + (low \div 1000000)

C12_Truncates ==
    (call.op = "codec" /\ Len(ret.val) >= 1) =>
        /\ call.v = 0 - (10 * Micro) => ret.val[1] = 0
        /\ call.v = 10 * Micro => ret.val[1] = 16777215
        /\ ret.val[1] = C12_Millionths(call.v + 10 * Micro) \div ScaleDen

\* 10 V converted to the full-scale code
C12_Witness ==
    /\ call.op = "codec"
    /\ Len(ret.val) >= 1
    /\ call.v = 10 * Micro
    /\ ret.val[1] = (2 ^ 24) - 1

(***************************************************************************)
(* C13: when the line read in reply to a channel voltage query is not      *)
(* hexadecimal text, the read raises a parse error; no value, and no None, *)
(* is returned or cached as if the read had succeeded.                     *)
(***************************************************************************)
\* the last two events are a voltage query and the line read in reply to it
C13_QueryAnswered ==
    /\ KindBack(0) = "read"
    /\ KindBack(1) = "write"
    /\ \E ch \in Channels : Back(1).text = ReadCmd(ch)

C13_ParseErrorSurfaced ==
    (C13_QueryAnswered /\ ~IsHexText(Strip(Back(0).text))) =>
        /\ ret.err = "parse"
        /\ \A ch \in Channels : Back(1).text = ReadCmd(ch) => cache[ch] # None

(***************************************************************************)
(* C14: set_all(v) with v in [-10 V, 10 V] commands the channels 1..24 in  *)
(* ascending order, one after the other: a command is written only after   *)
(* the reply to the command before it was read, it addresses the channel   *)
(* of the command before it or, once that channel got the code of v, the   *)
(* next channel; the call returns after channel 24 got the code of v.      *)
(***************************************************************************)
\* the channel a command addresses
C14_Chan(text) == ParseDec(Split(text, " ")[1])

C14_Sequential ==
    (call.op = "set_all" /\ call.v >= -10000000 /\ call.v <= 10000000) =>
        /\ KindBack(0) = "write" =>
               LET ch == C14_Chan(Back(0).text)
               IN  /\ ch \in 1..24
                   /\ Back(0).text = FmtDec(ch) \o " " \o FmtHex(vval_to_dacval(Back(0).v))
                   /\ IF Len(trace) = 2 THEN ch = 1
                      ELSE /\ KindBack(2) = "read"
                           /\ KindBack(3) = "write"
                           /\ \/ ch = C14_Chan(Back(3).text)
                              \/ /\ ch = C14_Chan(Back(3).text) + 1
                                 /\ Back(3).v = call.v
        /\ Returned =>
               /\ KindBack(0) = "read"
               /\ KindBack(1) = "write"
               /\ Back(1).v = call.v
               /\ Back(1).text = "24 " \o FmtHex(vval_to_dacval(call.v))

\* all channels ramped to 0.025 V, several commands each
C14_Witness ==
    /\ call.op = "set_all"
    /\ Returned
    /\ call.v = 25000
    /\ Len(Writes) = 72
    /\ Writes[1].text = "1 8020C4"
    /\ Writes[72].text = "24 8051EB"

(***************************************************************************)
(* C15: set_newWaveform with a target channel outside 1..24 is rejected    *)
(* with no command written.                                                *)
(***************************************************************************)
C15_ChannelInRange ==
    /\ IsDecText(call.chan)
    /\ ParseDec(call.chan) >= 1
    /\ ParseDec(call.chan) <= 24

C15_BadChannelRejected ==
    (call.op = "set_newWaveform" /\ ~C15_ChannelInRange) =>
        /\ Len(Writes) = 0
        /\ Returned => ret.err # "none"

(***************************************************************************)
(* C16: a set to a target in [-10 V, 10 V] no more than 0.01 V from the    *)
(* channel's cached value, the cached value itself included, writes        *)
(* exactly one command, the channel's set command with the code of the     *)
(* target.                                                                 *)
(***************************************************************************)
C16_WithinStepCase ==
    /\ call.op = "set"
    /\ call.c # None
    /\ call.v >= -10000000 /\ call.v <= 10000000
    /\ Distance(call.v, call.c) <= 10000

C16_OneCommand ==
    C16_WithinStepCase =>
        /\ Len(Writes) <= 1
        /\ \A i \in 1..Len(Writes) :
               /\ Writes[i].v = call.v
               /\ Writes[i].text = FmtDec(call.ch) \o " " \o FmtHex(vval_to_dacval(call.v))
        /\ Returned => Len(Writes) = 1

\* a channel set to the voltage it is cached at
C16_Witness ==
    /\ C16_WithinStepCase
    /\ Returned
    /\ call.v = call.c
    /\ Len(Writes) = 1
    /\ Len(trace) = 3

\* a channel set to a voltage exactly one step above the cached one
C16_WholeStep ==
    /\ C16_WithinStepCase
    /\ Returned
    /\ call.v = call.c + 10000
    /\ Len(Writes) = 1

(***************************************************************************)
(* C17: query_all writes exactly one command, 'All S?', and when the line  *)
(* read in reply holds 24 tokens separated by semicolons it returns these  *)
(* 24 tokens unchanged and in their order: joined again with semicolons    *)
(* they are the reply, and when the reply is the instrument's answer to    *)
(* this query, token i is the status of channel i.                         *)
(***************************************************************************)
\* semicolons in the reply query_all read
C17_Semicolons ==
    Cardinality({i \in 1..Len(trace[3].text) : SubSeq(trace[3].text, i, i) = ";"})

C18_Step ==
    /\ (ret.err # "io" /\ ret'.err = "io") =>
           /\ pc = "run"
           /\ pc' = "failed"
           /\ todo' = <<>>
           /\ call' = call
           /\ trace' = trace
           /\ dac' = dac
           /\ cache' = cache
    /\ ret.err = "io" =>
           /\ ret' = ret
           /\ pc' = "failed"
           /\ todo' = <<>>
           /\ call' = call
           /\ trace' = trace
           /\ dac' = dac
           /\ cache' = cache

C18_FailureAborts == [][C18_Step]_vars

\* a ramp to 1 V that failed reading the reply to its third command, two
\* steps done
C18_Witness ==
    /\ pc = "failed"
    /\ ret.err = "io"
    /\ call.op = "set"
    /\ call.v = 1000000
    /\ Len(Writes) = 3
    /\ KindBack(0) = "write"
    /\ cache[call.ch] = Writes[2].v
    /\ dac[call.ch] = vval_to_dacval(Writes[3].v)

(***************************************************************************)
(* C19: the Device has the 24 channels 1..24, in this order (construction  *)
(* ends by querying '1 V?' to '24 V?' in turn), at all times; a set or get *)
(* on channel k writes only commands addressed to k, 'k <HEX>' for a set   *)
(* and 'k V?' for a get, and changes the cached value of no other channel. *)
(***************************************************************************)
C19_State ==
    /\ DOMAIN cache = 1..24
    /\ (call.op = "construct" /\ Returned) =>
           /\ Len(Writes) >= 24
           /\ \A i \in 1..24 : Writes[Len(Writes) - 24 + i].text = FmtDec(i) \o " V?"
    /\ (call.op = "get" /\ KindBack(0) = "write") =>
           Back(0).text = FmtDec(call.ch) \o " V?"
    /\ (call.op = "set" /\ KindBack(0) = "write") =>
           Back(0).text = FmtDec(call.ch) \o " " \o FmtHex(vval_to_dacval(Back(0).v))

C19_Step ==
    /\ C19_State
    /\ C19_State'
    /\ call'.op \in {"set", "get"} =>
           \A c \in 1..24 : c # call'.ch => cache'[c] = cache[c]

C19_ChannelFrame == [][C19_Step]_vars

\* channel 24 ramped to -0.025 V, the other channels cached as they were read
C19_Witness ==
    /\ call.op = "set"
    /\ Returned
    /\ call.ch = 24
    /\ call.c = 1
    /\ Len(Writes) = 3
    /\ cache[24] = -25000
    /\ \A c \in 1..23 : cache[c] = 1

(***************************************************************************)
(* C20: every set command written, by a set or by set_all, whatever was    *)
(* requested before, carries a code in 0..16777215 written with at most    *)
(* six hexadecimal digits and no sign, the code of a voltage in            *)
(* [-10 V, 10 V].                                                          *)
(***************************************************************************)
C20_CodeInRange ==
    (call.op \in {"set", "set_all"} /\ KindBack(0) = "write") =>
        LET tok == Split(Back(0).text, " ")
        IN  /\ Len(tok) = 2
            /\ IsHexText(tok[2])
            /\ Len(tok[2]) <= 6
            /\ ParseHex(tok[2]) >= 0
            /\ ParseHex(tok[2]) <= 16777215
            /\ Back(0).v >= -10000000
            /\ Back(0).v <= 10000000
            /\ ParseHex(tok[2]) = vval_to_dacval(Back(0).v)

\* the last command of a ramp to 1 V
C20_Witness ==
    /\ call.op = "set"
    /\ KindBack(0) = "write"
    /\ Back(0).v = 1000000
    /\ Back(0).text = "1 8CCCCC"

====
